---- MODULE Spec2Model ----
(***************************************************************************)
(* Model of client.py: the OctoPrint REST client.  One Client object, one  *)
(* action per public method.  Every action models the whole method: its    *)
(* validation, the call it makes to Client._make_request, what             *)
(* _make_request does with it (attribute lookups, requests.request,        *)
(* raise_for_status) and the value or exception the method ends with.      *)
(***************************************************************************)
EXTENDS Integers, Sequences, FiniteSets, TLC

VARIABLES
    self,       \* the Client instance's attribute dictionary (client.py:10-12)
    given,      \* the arguments the constructor was called with (never assigned again)
    op,         \* name of the method invoked last ("__init__" after construction)
    args,       \* the arguments of that invocation
    srv,        \* the response the server gives to that invocation's request, if one arrives
    call,       \* the calls to self._make_request the invocation made (the dispatches)
    sent,       \* the HTTP requests requests.request issued during the invocation
    outcome     \* how the invocation ended: a return value or an exception

vars == <<self, given, op, args, srv, call, sent, outcome>>

----------------------------------------------------------------------------
(* Bounds of the explored inputs.                                          *)
MaxTools == 2       \* longest list given to tool_target / tool_offsets
MaxHistory == 2     \* largest history argument
MaxSet == 2         \* most optional keywords one connect() call passes

----------------------------------------------------------------------------
(* Python values, tagged with their type: val[1] is the type's name and    *)
(* val[2] the value.  Floats are fixed-point: the value is in              *)
(* ten-thousandths, so dividing hundredths by 100 is exact.                *)
None == <<"none">>
Unset == <<"unset">>                    \* a keyword the caller did not pass
PyInt(n) == <<"int", n>>
PyFloat(u) == <<"float", u>>
PyStr(s) == <<"str", s>>
PyBool(b) == <<"bool", b>>
PyList(s) == <<"list", s>>
PyTuple(s) == <<"tuple", s>>
PyDict(f) == <<"dict", f>>
PyResponse(rsp) == <<"response", rsp>>  \* a requests.Response
EmptyDict == [k \in {} |-> None]

\* Python truthiness, as used by `if port:`, `if x:`, `if speed:` ...
Truthy(val) ==
    CASE val[1] = "none" -> FALSE
      [] val[1] = "bool" -> val[2]
      [] val[1] = "int" -> val[2] # 0
      [] val[1] = "float" -> val[2] # 0
      [] val[1] = "str" -> val[2] # ""
      [] val[1] \in {"list", "tuple"} -> Len(val[2]) > 0
      [] OTHER -> TRUE

\* The numeric value of an int or float, in ten-thousandths.
Num(val) == IF val[1] = "int" THEN val[2] * 10000 ELSE val[2]

\* A keyword argument's binding: the caller's value, or the signature's default.
Bind(val, default) == IF val = Unset THEN default ELSE val

\* str.startswith
StartsWith(s, prefix) ==
    /\ Len(s) >= Len(prefix)
    /\ SubSeq(s, 1, Len(prefix)) = prefix

\* str(i) for a natural number, as in f"tool{i}"
Digit == <<"0", "1", "2", "3", "4", "5", "6", "7", "8", "9">>
RECURSIVE ToStr(_)
ToStr(i) == IF i < 10 THEN Digit[i + 1] ELSE ToStr(i \div 10) \o Digit[(i % 10) + 1]

----------------------------------------------------------------------------
(* How an invocation ends.                                                 *)
Return(val) == [kind |-> "return", value |-> val]
\* an exception raised by a `raise` statement of the method (its validation)
Raise(exc) == [kind |-> "raise", exc |-> exc, explicit |-> TRUE]
\* an exception the interpreter or a library raises while the method runs
Throw(exc) == [kind |-> "raise", exc |-> exc, explicit |-> FALSE]
HTTPError(status, body) ==
    [kind |-> "raise", exc |-> "HTTPError", explicit |-> FALSE,
     status |-> status, body |-> body]

\* `resp.json` without parentheses: the bound method object, not the parsed body
BoundMethod(obj, name) == <<"method", name, obj>>

\* What a method that fails before calling _make_request produces.
NoCall(out) == [call |-> <<>>, sent |-> <<>>, outcome |-> out]

----------------------------------------------------------------------------
(* The module's global names: `import requests` and `class Client`.        *)
ModuleGlobals == {"requests", "Client"}

\* requests.Response.raise_for_status: raises HTTPError for 4xx and 5xx.
RaisesForStatus(status) == status >= 400 /\ status < 600

\* urllib.parse.urljoin(base, endpoint) for an endpoint with a leading slash:
\* the endpoint replaces the base's path and keeps its scheme and authority.
Urljoin(base, endpoint) ==
    IF StartsWith(endpoint, "/")
    THEN [authority |-> base.authority, path |-> endpoint]
    ELSE [authority |-> base.authority, path |-> base.path \o endpoint]

\* The kwargs left after kwargs.pop("headers")
WithoutHeaders(kwargs) == [k \in (DOMAIN kwargs) \ {"headers"} |-> kwargs[k]]

\* Client._make_request(endpoint, method, **kwargs) against a server that
\* answers rsp.  Result: ok, exc (the exception when not ok), resp, sent.
_make_request(slf, endpoint, method, kwargs, rsp) ==
    IF "api_key" \notin DOMAIN slf
    THEN [ok |-> FALSE, exc |-> Throw("AttributeError"), resp |-> None, sent |-> <<>>]
    ELSE LET base == IF "headers" \in DOMAIN kwargs THEN kwargs["headers"] ELSE EmptyDict
             headers == [k \in (DOMAIN base) \cup {"X-Api-Key"} |->
                            IF k = "X-Api-Key" THEN slf["api_key"] ELSE base[k]]
         IN  IF "urllib" \notin ModuleGlobals
             THEN [ok |-> FALSE, exc |-> Throw("NameError"), resp |-> None, sent |-> <<>>]
             ELSE IF "url" \notin DOMAIN slf
             THEN [ok |-> FALSE, exc |-> Throw("AttributeError"), resp |-> None, sent |-> <<>>]
             ELSE LET req == [method |-> method,
                              url |-> Urljoin(slf["url"], endpoint),
                              headers |-> headers,
                              kwargs |-> WithoutHeaders(kwargs)]
                  IN  IF RaisesForStatus(rsp.status)
                      THEN [ok |-> FALSE, exc |-> HTTPError(rsp.status, rsp.body),
                            resp |-> None, sent |-> <<req>>]
                      ELSE [ok |-> TRUE, exc |-> None, resp |-> PyResponse(rsp),
                            sent |-> <<req>>]

\* `resp = self._make_request(...)` followed by `return resp.json`
CallReturnJson(slf, endpoint, method, kwargs, rsp) ==
    LET r == _make_request(slf, endpoint, method, kwargs, rsp)
    IN  [call |-> <<[endpoint |-> endpoint, method |-> method, kwargs |-> kwargs]>>,
         sent |-> r.sent,
         outcome |-> IF r.ok THEN Return(BoundMethod(r.resp, "json"))
                     ELSE r.exc]

\* `resp = self._make_request(...)` as the method's last statement
CallReturnNone(slf, endpoint, method, kwargs, rsp) ==
    LET r == _make_request(slf, endpoint, method, kwargs, rsp)
    IN  [call |-> <<[endpoint |-> endpoint, method |-> method, kwargs |-> kwargs]>>,
         sent |-> r.sent,
         outcome |-> IF r.ok THEN Return(None) ELSE r.exc]

\* dict(d, key=val): the dict with one more key
With(d, key, val) == [k \in (DOMAIN d) \cup {key} |-> IF k = key THEN val ELSE d[k]]
\* `if val: data[key] = val`
WithIfTruthy(d, key, val) == IF Truthy(val) THEN With(d, key, val) ELSE d

----------------------------------------------------------------------------
(* The methods, in the order of client.py.                                 *)

version(slf, rsp) == CallReturnJson(slf, "/api/version", "GET", EmptyDict, rsp)

server(slf, rsp) == CallReturnJson(slf, "/api/server", "GET", EmptyDict, rsp)

connect_settings(slf, rsp) == CallReturnJson(slf, "/api/server", "GET", EmptyDict, rsp)

connect(slf, port, baudrate, printerProfile, save, autoconnect, rsp) ==
    LET d0 == With(EmptyDict, "command", PyStr("connect"))
        d1 == WithIfTruthy(d0, "port", port)
        d2 == WithIfTruthy(d1, "baudrate", baudrate)
        d3 == WithIfTruthy(d2, "printerProfile", printerProfile)
        d4 == WithIfTruthy(d3, "save", save)
        data == WithIfTruthy(d4, "autoconnect", autoconnect)
    IN  CallReturnNone(slf, "/api/connection", "POST", With(EmptyDict, "json", PyDict(data)), rsp)

disconnect(slf, rsp) ==
    LET data == With(EmptyDict, "command", PyStr("disconnect"))
    IN  CallReturnNone(slf, "/api/connection", "POST", With(EmptyDict, "json", PyDict(data)), rsp)

\* BadLocation with one more name let through, as a stale entry in the list would
BadLocation_Usb(location) == location \notin {PyStr("local"), PyStr("sdcard"), PyStr("usb")}

\* `location not in ["local", "sdcard"]`
BadLocation(location) == location \notin {PyStr("local"), PyStr("sdcard")}

files(slf, override_cache, recursive, location, rsp) ==
    LET params == With(With(EmptyDict, "force", override_cache), "recursive", recursive)
    IN  IF BadLocation(location)
        THEN NoCall(Raise("ValueError"))
        ELSE CallReturnJson(slf, "/api/files" \o "/" \o location[2], "GET",
                            With(EmptyDict, "params", PyDict(params)), rsp)

file_upload(slf, filename, file, path, location, rsp) ==
    IF BadLocation(location)
    THEN NoCall(Raise("ValueError"))
    ELSE LET parts == With(With(EmptyDict, "files", PyTuple(<<filename, file>>)),
                           "path", PyTuple(<<None, path>>))
         IN  CallReturnJson(slf, "/api/files/" \o location[2], "POST",
                            With(EmptyDict, "files", PyDict(parts)), rsp)

new_directory(slf, foldername, path, rsp) ==
    IF foldername \in {None, PyStr("")}
    THEN NoCall(Raise("ValueError"))
    ELSE LET parts == With(With(EmptyDict, "foldername", PyTuple(<<None, foldername>>)),
                           "path", PyTuple(<<None, path>>))
         IN  CallReturnJson(slf, "/api/files/local", "GET",
                            With(EmptyDict, "files", PyDict(parts)), rsp)

\* `not path.startswith("local/") and not path.startswith("sdcard/")`
BadPath(path) == ~StartsWith(path[2], "local/") /\ ~StartsWith(path[2], "sdcard/")

file_retrieve(slf, path, recursive, rsp) ==
    IF BadPath(path)
    THEN NoCall(Raise("ValueError"))
    ELSE CallReturnJson(slf, "/api/files/" \o path[2], "GET",
                        With(EmptyDict, "params",
                             PyDict(With(EmptyDict, "recursive", recursive))), rsp)

file_select(slf, path, print_now, rsp) ==
    IF BadPath(path)
    THEN NoCall(Raise("ValueError"))
    ELSE LET params == With(With(EmptyDict, "command", PyStr("select")), "print", print_now)
         IN  CallReturnJson(slf, "/api/files/" \o path[2], "POST",
                            With(EmptyDict, "params", PyDict(params)), rsp)

\* file_unselect(self) declares no `path` parameter: a call that passes one is
\* refused by the interpreter (TypeError), and a call without one reads the
\* name `path`, which is neither a local nor a module global (NameError).
file_unselect(slf, path, rsp) ==
    IF path # Unset
    THEN NoCall(Throw("TypeError"))
    ELSE IF "path" \notin ModuleGlobals
    THEN NoCall(Throw("NameError"))
    ELSE CallReturnJson(slf, "/api/files/" \o "path", "POST",   \* the global's value
                        With(EmptyDict, "params",
                             PyDict(With(EmptyDict, "command", PyStr("unselect")))), rsp)

file_slice(slf, path, filename, position_x, position_y, printerProfile, profile, select, print_now, slicer, rsp) ==
    IF BadPath(path)
    THEN NoCall(Raise("ValueError"))
    ELSE LET position == With(With(EmptyDict, "x", position_x), "y", position_y)
             data == [k \in {"command", "gcode", "position", "printerProfile",
                             "profile", "select", "print", "slicer"} |->
                        CASE k = "command" -> PyStr("slice")
                          [] k = "gcode" -> filename
                          [] k = "position" -> PyDict(position)
                          [] k = "printerProfile" -> printerProfile
                          [] k = "profile" -> profile
                          [] k = "select" -> select
                          [] k = "print" -> print_now
                          [] k = "slicer" -> slicer]
         IN  CallReturnJson(slf, "/api/files/" \o path[2], "POST",
                            With(EmptyDict, "json", PyDict(data)), rsp)

file_delete(slf, path, rsp) ==
    IF BadPath(path)
    THEN NoCall(Raise("ValueError"))
    ELSE CallReturnNone(slf, "/api/files/" \o path[2], "DELETE", EmptyDict, rsp)

\* json={"command": command} and json={"command": "pause", "action": action}
JobCommand(command) == With(EmptyDict, "json", PyDict(With(EmptyDict, "command", PyStr(command))))
PauseCommand(action) ==
    With(EmptyDict, "json",
         PyDict(With(With(EmptyDict, "command", PyStr("pause")), "action", PyStr(action))))

job_start(slf, rsp) == CallReturnNone(slf, "/api/job", "POST", JobCommand("start"), rsp)

job_cancel(slf, rsp) == CallReturnNone(slf, "/api/job", "POST", JobCommand("cancel"), rsp)

job_restart(slf, rsp) == CallReturnNone(slf, "/api/job", "POST", JobCommand("restart"), rsp)

job_pause(slf, rsp) == CallReturnNone(slf, "/api/job", "POST", PauseCommand("pause"), rsp)

job_resume(slf, rsp) == CallReturnNone(slf, "/api/job", "POST", PauseCommand("resume"), rsp)

job_toggle(slf, rsp) == CallReturnNone(slf, "/api/job", "POST", PauseCommand("toggle"), rsp)

job(slf, rsp) == CallReturnJson(slf, "/api/job", "GET", EmptyDict, rsp)

\* `history is None or history < 0`
BadHistory(history) == history = None \/ history[2] < 0

\* `if history > 0: data["history"] = True; data["limit"] = history`
WithHistory(d, history) ==
    IF history[2] > 0
    THEN With(With(d, "history", PyBool(TRUE)), "limit", history)
    ELSE d

printer(slf, history, exclude, rsp) ==
    IF BadHistory(history)
    THEN NoCall(Raise("ValueError"))
    ELSE LET data == WithHistory(WithIfTruthy(EmptyDict, "exclude", exclude), history)
         IN  CallReturnJson(slf, "/api/printer", "GET",
                            With(EmptyDict, "params", PyDict(data)), rsp)

printhead_jog(slf, x, y, z, absolute, speed, rsp) ==
    IF x = None /\ y = None /\ z = None
    THEN NoCall(Raise("TypeError"))
    ELSE LET d0 == With(EmptyDict, "command", PyStr("jog"))
             d1 == WithIfTruthy(d0, "x", x)
             d2 == WithIfTruthy(d1, "y", y)
             d3 == WithIfTruthy(d2, "z", z)
             d4 == WithIfTruthy(d3, "absolute", absolute)
             data == WithIfTruthy(d4, "speed", speed)
         IN  CallReturnNone(slf, "/api/printer/printhead", "POST",
                            With(EmptyDict, "json", PyDict(data)), rsp)

printhead_home(slf, x, y, z, rsp) ==
    IF PyBool(TRUE) \notin {x, y, z}
    THEN NoCall(Raise("TypeError"))
    ELSE LET ax == (IF Truthy(x) THEN <<PyStr("x")>> ELSE <<>>)
                   \o (IF Truthy(y) THEN <<PyStr("y")>> ELSE <<>>)
                   \o (IF Truthy(z) THEN <<PyStr("z")>> ELSE <<>>)
             data == With(With(EmptyDict, "command", PyStr("home")), "axes", PyList(ax))
         IN  CallReturnNone(slf, "/api/printer/printhead", "POST",
                            With(EmptyDict, "json", PyDict(data)), rsp)

\* Normalize with `>=` for `>`: the limit itself is divided too
Normalize_Inclusive(factor, limit) ==
    IF Num(factor) >= limit THEN PyFloat(Num(factor) \div 100) ELSE factor

\* `if factor > limit: factor /= round(100.0, 2)`: the factor after the
\* normalisation, a float once divided (values in ten-thousandths).
Normalize(factor, limit) ==
    IF Num(factor) > limit THEN PyFloat(Num(factor) \div 100) ELSE factor

printhead_feedrate(slf, factor, rsp) ==
    LET f == Normalize(factor, 20000)
    IN  IF Num(f) > 20000 \/ Num(f) < 5000
        THEN NoCall(Raise("ValueError"))
        ELSE LET data == With(With(EmptyDict, "command", PyStr("feedrate")), "factor", f)
             IN  CallReturnNone(slf, "/api/printer/printhead", "POST",
                                With(EmptyDict, "json", PyDict(data)), rsp)

\* ToolDict numbering the tools from 1, as enumerate(temp, 1) would
ToolDict_OneBased(seq) == [k \in {"tool" \o ToStr(i) : i \in 1..Len(seq)} |->
                             seq[CHOOSE i \in 1..Len(seq) : k = "tool" \o ToStr(i)]]

\* `for i, x in enumerate(temp): targets[f"tool{i}"] = x`
ToolDict(seq) == [k \in {"tool" \o ToStr(i - 1) : i \in 1..Len(seq)} |->
                    seq[CHOOSE i \in 1..Len(seq) : k = "tool" \o ToStr(i - 1)]]

tool_target(slf, temp, rsp) ==
    IF temp[1] \notin {"int", "list"}
    THEN NoCall(Raise("ValueError"))
    ELSE LET targets == IF temp[1] = "int" THEN With(EmptyDict, "tool", temp)
                        ELSE ToolDict(temp[2])
             data == With(With(EmptyDict, "command", PyStr("target")),
                          "targets", PyDict(targets))
         IN  CallReturnNone(slf, "/api/printer/tool", "POST",
                            With(EmptyDict, "json", PyDict(data)), rsp)

tool_offsets(slf, offsets, rsp) ==
    LET data == With(With(EmptyDict, "command", PyStr("offset")),
                     "offsets", PyDict(ToolDict(offsets[2])))
    IN  CallReturnNone(slf, "/api/printer/tool", "POST",
                       With(EmptyDict, "json", PyDict(data)), rsp)

tool_select(slf, toolidx, rsp) ==
    IF toolidx[2] < 0
    THEN NoCall(Raise("ValueError"))
    ELSE LET data == With(With(EmptyDict, "command", PyStr("select")), "tool", toolidx)
         IN  CallReturnNone(slf, "/api/printer/tool", "POST",
                            With(EmptyDict, "json", PyDict(data)), rsp)

tool_extrude(slf, amount, speed, rsp) ==
    LET d0 == With(With(EmptyDict, "command", PyStr("extrude")), "amount", amount)
    IN  IF Truthy(speed) /\ speed[2] < 0
        THEN NoCall(Raise("ValueError"))
        ELSE CallReturnNone(slf, "/api/printer/tool", "POST",
                            With(EmptyDict, "json", PyDict(WithIfTruthy(d0, "speed", speed))),
                            rsp)

tool_flowrate(slf, factor, rsp) ==
    LET f == Normalize(factor, 12500)
    IN  IF Num(f) > 12500 \/ Num(f) < 7500
        THEN NoCall(Raise("ValueError"))
        ELSE LET data == With(With(EmptyDict, "command", PyStr("flowrate")), "factor", f)
             IN  CallReturnNone(slf, "/api/printer/tool", "POST",
                                With(EmptyDict, "json", PyDict(data)), rsp)

tool(slf, history, rsp) ==
    IF BadHistory(history)
    THEN NoCall(Raise("ValueError"))
    ELSE CallReturnJson(slf, "/api/printer/tool", "GET",
                        With(EmptyDict, "params", PyDict(WithHistory(EmptyDict, history))), rsp)

bed_target(slf, target, rsp) ==
    IF target[2] < 0
    THEN NoCall(Raise("ValueError"))
    ELSE LET data == With(With(EmptyDict, "command", PyStr("target")), "target", target)
         IN  CallReturnNone(slf, "/api/printer", "GET",
                            With(EmptyDict, "json", PyDict(data)), rsp)

bed_offset(slf, offset, rsp) ==
    LET data == With(With(EmptyDict, "command", PyStr("offset")), "offset", offset)
    IN  CallReturnNone(slf, "/api/printer", "GET", With(EmptyDict, "json", PyDict(data)), rsp)

bed(slf, history, rsp) ==
    IF BadHistory(history)
    THEN NoCall(Raise("ValueError"))
    ELSE CallReturnJson(slf, "/api/printer/bed", "GET",
                        With(EmptyDict, "params", PyDict(WithHistory(EmptyDict, history))), rsp)

----------------------------------------------------------------------------
(* The inputs explored.                                                    *)
ApiKeys == {None, PyStr("k3y")}
BaseUrls == {[authority |-> "http://printer.local", path |-> "/"]}
Servers == {[status |-> 200, body |-> PyDict(With(EmptyDict, "state", PyStr("Operational")))],
            [status |-> 409, body |-> PyDict(With(EmptyDict, "error", PyStr("Conflict")))]}
NoServer == [status |-> 0, body |-> None]

HeaderMaps == {Unset, PyDict(With(EmptyDict, "Accept", PyStr("application/json"))),
              PyDict(With(EmptyDict, "X-Api-Key", PyStr("0ther")))}
Bools == {PyBool(FALSE), PyBool(TRUE)}
Locations == {PyStr("local"), PyStr("sdcard"), PyStr(""), PyStr("usb"),
              PyStr("Local"), PyStr("local/"), None}
Paths == {PyStr("local/a.gcode"), PyStr("sdcard/b.gcode"), PyStr("local/"),
          PyStr(""), PyStr("local"), PyStr("sdcard"), PyStr("/local/a.gcode"),
          PyStr("Local/a.gcode"), PyStr("usb/local/a.gcode"), PyStr("sdcardx/b")}
Histories == {None} \cup {PyInt(h) : h \in -1..MaxHistory}
Axes == {None, PyInt(0), PyInt(5)}
Temps == {PyInt(0), PyInt(200), PyInt(210)}
TempLists == UNION {[1..n -> Temps] : n \in 0..MaxTools}
\* feedrate / flowrate factors: percentages as ints, fractions as floats
\* (floats are given in hundredths, PyFloat(h * 100))
Factors == {PyInt(n) : n \in {0, 1, 2, 3, 49, 50, 74, 75, 100, 125, 126, 150, 200, 201, 300}}
           \cup {PyFloat(h * 100) : h \in {0, 49, 50, 74, 75, 100, 125, 126, 150, 200, 201,
                                           300, 4999, 5000, 7500, 12500, 12501, 15000,
                                           20000, 20001}}

----------------------------------------------------------------------------
(* Construction: Client(base_url, api_key) sets _api_key and _base_url.    *)
Init ==
    \E base_url \in BaseUrls, api_key \in ApiKeys :
        /\ self = [k \in {"_api_key", "_base_url"} |->
                      IF k = "_api_key" THEN api_key ELSE base_url]
        /\ given = [base_url |-> base_url, api_key |-> api_key]
        /\ op = "__init__"
        /\ args = [base_url |-> base_url, api_key |-> api_key]
        /\ srv = NoServer
        /\ call = <<>>
        /\ sent = <<>>
        /\ outcome = Return(None)

\* Invoke with the request's URL stored over the base URL, as
\* `self._base_url = url` in the dispatch routine would
Invoke_KeepsUrl(name, a, rsp, res) ==
    /\ op' = name
    /\ args' = a
    /\ srv' = rsp
    /\ call' = res.call
    /\ sent' = res.sent
    /\ outcome' = res.outcome
    /\ self' = IF res.call = <<>> THEN self
               ELSE [self EXCEPT !["_base_url"] = Urljoin(@, res.call[1].endpoint)]
    /\ UNCHANGED given

\* One invocation of a method: its arguments, the server it runs against,
\* and everything the method did.  No method assigns an attribute of self.
Invoke(name, a, rsp, res) ==
    /\ op' = name
    /\ args' = a
    /\ srv' = rsp
    /\ call' = res.call
    /\ sent' = res.sent
    /\ outcome' = res.outcome
    /\ UNCHANGED <<self, given>>

\* _make_request called directly, with or without a header map of the caller's.
Do__make_request ==
    \E endpoint \in {PyStr("/api/version")}, method \in {Unset, PyStr("POST")},
       headers \in HeaderMaps, rsp \in Servers :
        LET kwargs == IF headers = Unset THEN EmptyDict
                      ELSE With(EmptyDict, "headers", headers[2])
            verb == Bind(method, PyStr("GET"))[2]
            r == _make_request(self, endpoint[2], verb, kwargs, rsp)
        IN  Invoke("_make_request",
                   [endpoint |-> endpoint, method |-> method, headers |-> headers], rsp,
                   [call |-> <<[endpoint |-> endpoint[2], method |-> verb,
                                kwargs |-> kwargs]>>,
                    sent |-> r.sent,
                    outcome |-> IF r.ok THEN Return(r.resp) ELSE r.exc])

Do_version == \E rsp \in Servers : Invoke("version", EmptyDict, rsp, version(self, rsp))

Do_server == \E rsp \in Servers : Invoke("server", EmptyDict, rsp, server(self, rsp))

Do_connect_settings ==
    \E rsp \in Servers :
        Invoke("connect_settings", EmptyDict, rsp, connect_settings(self, rsp))

Do_connect ==
    \E port \in {Unset, PyStr(""), PyStr("/dev/ttyUSB0")},
       baudrate \in {Unset, PyInt(0), PyInt(115200)},
       printerProfile \in {Unset, PyStr("_default")},
       save \in {Unset} \cup Bools,
       autoconnect \in {Unset} \cup Bools,
       rsp \in Servers :
        /\ Cardinality({k \in 1..5 :
                <<port, baudrate, printerProfile, save, autoconnect>>[k] # Unset}) <= MaxSet
        /\ Invoke("connect",
               [port |-> port, baudrate |-> baudrate, printerProfile |-> printerProfile,
                save |-> save, autoconnect |-> autoconnect],
               rsp,
               connect(self, Bind(port, None), Bind(baudrate, None),
                       Bind(printerProfile, None), Bind(save, PyBool(FALSE)),
                       Bind(autoconnect, None), rsp))

Do_disconnect ==
    \E rsp \in Servers : Invoke("disconnect", EmptyDict, rsp, disconnect(self, rsp))

Do_files ==
    \E override_cache \in {Unset, PyBool(TRUE)}, recursive \in {Unset, PyBool(TRUE)},
       location \in {Unset} \cup Locations, rsp \in Servers :
        Invoke("files",
               [override_cache |-> override_cache, recursive |-> recursive,
                location |-> location],
               rsp,
               files(self, Bind(override_cache, PyBool(FALSE)),
                     Bind(recursive, PyBool(FALSE)), Bind(location, PyStr("local")), rsp))

Do_file_upload ==
    \E filename \in {PyStr("a.gcode")}, file \in {PyStr("G28")},
       path \in {Unset, PyStr("sub/")}, location \in {Unset} \cup Locations,
       rsp \in Servers :
        Invoke("file_upload",
               [filename |-> filename, file |-> file, path |-> path, location |-> location],
               rsp,
               file_upload(self, filename, file, Bind(path, PyStr("/")),
                           Bind(location, PyStr("local")), rsp))

Do_new_directory ==
    \E foldername \in {None, PyStr(""), PyStr("parts")}, path \in {Unset, PyStr("sub/")},
       rsp \in Servers :
        Invoke("new_directory", [foldername |-> foldername, path |-> path], rsp,
               new_directory(self, foldername, Bind(path, None), rsp))

Do_file_retrieve ==
    \E path \in Paths, recursive \in {Unset, PyBool(TRUE)}, rsp \in Servers :
        Invoke("file_retrieve", [path |-> path, recursive |-> recursive], rsp,
               file_retrieve(self, path, Bind(recursive, PyBool(FALSE)), rsp))

Do_file_select ==
    \E path \in Paths, print_now \in {Unset, PyBool(TRUE)}, rsp \in Servers :
        Invoke("file_select", [path |-> path, print_now |-> print_now], rsp,
               file_select(self, path, Bind(print_now, PyBool(FALSE)), rsp))

Do_file_unselect ==
    \E path \in {Unset} \cup Paths, rsp \in Servers :
        Invoke("file_unselect", [path |-> path], rsp, file_unselect(self, path, rsp))

Do_file_slice ==
    \E path \in Paths, filename \in {PyStr("a.gcode")}, select \in {Unset},
       slicer \in {Unset, PyStr("slic3r")}, rsp \in Servers :
        Invoke("file_slice",
               [path |-> path, filename |-> filename, select |-> select, slicer |-> slicer],
               rsp,
               file_slice(self, path, filename, PyInt(100), PyInt(100), None, None,
                          Bind(select, PyBool(FALSE)), PyBool(FALSE),
                          Bind(slicer, PyStr("cura")), rsp))

Do_file_delete ==
    \E path \in Paths, rsp \in Servers :
        Invoke("file_delete", [path |-> path], rsp, file_delete(self, path, rsp))

Do_job_start == \E rsp \in Servers : Invoke("job_start", EmptyDict, rsp, job_start(self, rsp))

Do_job_cancel == \E rsp \in Servers : Invoke("job_cancel", EmptyDict, rsp, job_cancel(self, rsp))

Do_job_restart ==
    \E rsp \in Servers : Invoke("job_restart", EmptyDict, rsp, job_restart(self, rsp))

Do_job_pause == \E rsp \in Servers : Invoke("job_pause", EmptyDict, rsp, job_pause(self, rsp))

Do_job_resume == \E rsp \in Servers : Invoke("job_resume", EmptyDict, rsp, job_resume(self, rsp))

Do_job_toggle == \E rsp \in Servers : Invoke("job_toggle", EmptyDict, rsp, job_toggle(self, rsp))

Do_job == \E rsp \in Servers : Invoke("job", EmptyDict, rsp, job(self, rsp))

Do_printer ==
    \E history \in {Unset} \cup Histories, exclude \in {Unset, PyStr("sd")}, rsp \in Servers :
        Invoke("printer", [history |-> history, exclude |-> exclude], rsp,
               printer(self, Bind(history, PyInt(0)), Bind(exclude, None), rsp))

Do_printhead_jog ==
    \E x \in Axes, y \in Axes, z \in Axes, absolute \in {Unset, PyBool(TRUE)},
       speed \in {Unset, PyInt(600)}, rsp \in Servers :
        Invoke("printhead_jog",
               [x |-> x, y |-> y, z |-> z, absolute |-> absolute, speed |-> speed], rsp,
               printhead_jog(self, x, y, z, Bind(absolute, PyBool(FALSE)),
                             Bind(speed, None), rsp))

Do_printhead_home ==
    \E x \in {Unset} \cup Bools, y \in {Unset} \cup Bools, z \in {Unset} \cup Bools,
       rsp \in Servers :
        Invoke("printhead_home", [x |-> x, y |-> y, z |-> z], rsp,
               printhead_home(self, Bind(x, PyBool(TRUE)), Bind(y, PyBool(TRUE)),
                              Bind(z, PyBool(TRUE)), rsp))

Do_printhead_feedrate ==
    \E factor \in {Unset} \cup Factors, rsp \in Servers :
        Invoke("printhead_feedrate", [factor |-> factor], rsp,
               printhead_feedrate(self, Bind(factor, PyFloat(1000000)), rsp))

Do_tool_target ==
    \E temp \in Temps \cup {PyList(l) : l \in TempLists}
                 \cup {PyTuple(<<PyInt(200), PyInt(210)>>), PyFloat(2000000),
                       PyStr("200"), PyBool(TRUE), None,
                       PyDict(With(EmptyDict, "tool0", PyInt(200)))},
       rsp \in Servers :
        Invoke("tool_target", [temp |-> temp], rsp, tool_target(self, temp, rsp))

Do_tool_offsets ==
    \E offsets \in {PyList(l) : l \in [1..MaxTools -> {PyInt(-5), PyInt(0), PyInt(10)}]}
                    \cup {PyList(<<>>)},
       rsp \in Servers :
        Invoke("tool_offsets", [offsets |-> offsets], rsp, tool_offsets(self, offsets, rsp))

Do_tool_select ==
    \E toolidx \in {PyInt(i) : i \in -1..MaxTools}, rsp \in Servers :
        Invoke("tool_select", [tool |-> toolidx], rsp, tool_select(self, toolidx, rsp))

Do_tool_extrude ==
    \E amount \in {PyInt(-5), PyInt(5)}, speed \in {Unset, PyInt(-1), PyInt(0), PyInt(300)},
       rsp \in Servers :
        Invoke("tool_extrude", [amount |-> amount, speed |-> speed], rsp,
               tool_extrude(self, amount, Bind(speed, None), rsp))

Do_tool_flowrate ==
    \E factor \in Factors, rsp \in Servers :
        Invoke("tool_flowrate", [factor |-> factor], rsp, tool_flowrate(self, factor, rsp))

Do_tool ==
    \E history \in {Unset} \cup Histories, rsp \in Servers :
        Invoke("tool", [history |-> history], rsp, tool(self, Bind(history, PyInt(0)), rsp))

Do_bed_target ==
    \E target \in {PyInt(-1), PyInt(0), PyInt(60)}, rsp \in Servers :
        Invoke("bed_target", [target |-> target], rsp, bed_target(self, target, rsp))

Do_bed_offset ==
    \E offset \in {PyInt(-5), PyInt(0), PyInt(5)}, rsp \in Servers :
        Invoke("bed_offset", [offset |-> offset], rsp, bed_offset(self, offset, rsp))

Do_bed ==
    \E history \in {Unset} \cup Histories, rsp \in Servers :
        Invoke("bed", [history |-> history], rsp, bed(self, Bind(history, PyInt(0)), rsp))

Next ==
    \/ Do__make_request
    \/ Do_version \/ Do_server \/ Do_connect_settings \/ Do_connect \/ Do_disconnect
    \/ Do_files \/ Do_file_upload \/ Do_new_directory \/ Do_file_retrieve
    \/ Do_file_select \/ Do_file_unselect \/ Do_file_slice \/ Do_file_delete
    \/ Do_job_start \/ Do_job_cancel \/ Do_job_restart \/ Do_job_pause
    \/ Do_job_resume \/ Do_job_toggle \/ Do_job
    \/ Do_printer \/ Do_printhead_jog \/ Do_printhead_home \/ Do_printhead_feedrate
    \/ Do_tool_target \/ Do_tool_offsets \/ Do_tool_select \/ Do_tool_extrude
    \/ Do_tool_flowrate \/ Do_tool \/ Do_bed_target \/ Do_bed_offset \/ Do_bed

Spec == Init /\ [][Next]_vars

----------------------------------------------------------------------------
(* Vocabulary of the properties.                                           *)

\* The invocation ended in an error its own validation raised.
ValidationError(o) ==
    /\ o.kind = "raise"
    /\ o.explicit
    /\ o.exc \in {"ValueError", "TypeError"}

\* The invocation called the dispatch routine _make_request exactly once.
Dispatched == Len(call) = 1
\* Neither the dispatch routine was called nor an HTTP request issued.
NothingDispatched == call = <<>> /\ sent = <<>>
\* The JSON body handed to the dispatch routine.
JsonBody == call[1].kwargs["json"][2]

\* The argument as the method sees it: the caller's value or the default.
Arg(name, default) == Bind(args[name], default)

----------------------------------------------------------------------------
PathOps == {"file_retrieve", "file_select", "file_unselect", "file_slice", "file_delete"}
PathGiven == args.path # Unset
PathRefused == ~StartsWith(args.path[2], "local/") /\ ~StartsWith(args.path[2], "sdcard/")

(* C1: for every path-based file operation (file_retrieve, file_select,    *)
(* file_unselect, file_slice, file_delete) and every path that starts with *)
(* neither "local/" nor "sdcard/", the operation raises a validation error *)
(* and no HTTP request is dispatched.                                      *)
C1_PathValidation ==
    (op \in PathOps /\ PathGiven /\ PathRefused)
        => (ValidationError(outcome) /\ NothingDispatched)

----------------------------------------------------------------------------
(* C2: for every location outside {"local", "sdcard"}, files(location=...) *)
(* and file_upload(location=...) raise a validation error and neither call *)
(* the dispatch routine nor issue an HTTP request.                         *)
C2_LocationValidation ==
    (/\ op \in {"files", "file_upload"}
     /\ Arg("location", PyStr("local")) # PyStr("local")
     /\ Arg("location", PyStr("local")) # PyStr("sdcard"))
        => (ValidationError(outcome) /\ NothingDispatched)

C2_Witness ==
    /\ op = "file_upload"
    /\ args.location = PyStr("usb")
    /\ outcome = Raise("ValueError")
    /\ NothingDispatched

----------------------------------------------------------------------------
JogAxes == {"x", "y", "z"}
JogGiven == {a \in JogAxes : args[a] # None}

(* C3: printhead_jog with x, y and z all None raises a validation error;   *)
(* with at least one of them given (any number, 0 included) it succeeds    *)
(* and the axis keys of the JSON body are exactly the axes the caller gave,*)
(* each with the given value.                                              *)
C3_Jog ==
    op = "printhead_jog" =>
        IF JogGiven = {}
        THEN ValidationError(outcome) /\ NothingDispatched
        ELSE /\ outcome.kind = "return"
             /\ Dispatched
             /\ (DOMAIN JsonBody) \cap JogAxes = JogGiven
             /\ \A a \in JogGiven : JsonBody[a] = args[a]

----------------------------------------------------------------------------
ToolNames == <<"tool0", "tool1", "tool2", "tool3">>

----------------------------------------------------------------------------
FeedrateGiven == Num(Arg("factor", PyFloat(1000000)))
FeedrateWanted == IF FeedrateGiven > 20000 THEN FeedrateGiven \div 100 ELSE FeedrateGiven

----------------------------------------------------------------------------
GetOps == {"version", "server", "connect_settings", "files", "file_retrieve",
           "job", "printer", "tool", "bed"}

(* C6: every GET operation (version, server, connect_settings, files,      *)
(* file_retrieve, job, printer, tool, bed) whose request the server        *)
(* answers with 200 and a JSON body returns that parsed body, unchanged.   *)
C6_GetReturnsBody ==
    (op \in GetOps /\ Dispatched /\ srv.status = 200)
        => outcome = Return(srv.body)

----------------------------------------------------------------------------
(* C7: whenever the server answers an operation's request with a status    *)
(* outside [200, 300), the operation fails with an HTTP error carrying     *)
(* that status and does not return; a 409 to job_start() surfaces as an    *)
(* HTTP error with status 409.                                             *)
C7_HttpError ==
    (Dispatched /\ (srv.status < 200 \/ srv.status >= 300))
        => /\ outcome.kind = "raise"
           /\ outcome.exc = "HTTPError"
           /\ outcome.status = srv.status

----------------------------------------------------------------------------
(* C8: every request handed to the dispatch routine goes out as an HTTP    *)
(* request carrying an X-Api-Key header whose value is the api_key given   *)
(* at construction, also when the caller supplies a header map of its own  *)
(* (the configured key replaces an X-Api-Key of the caller's).             *)
C8_ApiKeyHeader ==
    Dispatched =>
        /\ Len(sent) = 1
        /\ "X-Api-Key" \in DOMAIN sent[1].headers
        /\ sent[1].headers["X-Api-Key"] = self["_api_key"]

----------------------------------------------------------------------------
TableVerb ==
    CASE op \in GetOps -> "GET"
      [] op = "file_delete" -> "DELETE"
      [] OTHER -> "POST"

TableEndpoint ==
    CASE op = "version" -> "/api/version"
      [] op = "server" -> "/api/server"
      [] op \in {"connect_settings", "connect", "disconnect"} -> "/api/connection"
      [] op \in {"files", "file_upload"} -> "/api/files/" \o Arg("location", PyStr("local"))[2]
      [] op = "new_directory" -> "/api/files/local"
      [] op \in PathOps -> "/api/files/" \o args.path[2]
      [] op \in {"job_start", "job_cancel", "job_restart", "job_pause", "job_resume",
                 "job_toggle", "job"} -> "/api/job"
      [] op = "printer" -> "/api/printer"
      [] op \in {"printhead_jog", "printhead_home", "printhead_feedrate"}
            -> "/api/printer/printhead"
      [] op \in {"tool_target", "tool_offsets", "tool_select", "tool_extrude",
                 "tool_flowrate", "tool"} -> "/api/printer/tool"
      [] op \in {"bed_target", "bed_offset", "bed"} -> "/api/printer/bed"

(* C9: every operation dispatches its request with the HTTP verb and the   *)
(* endpoint path the operation table lists for it: connection settings     *)
(* GET /api/connection, create directory POST /api/files/local, bed target *)
(* temperature and bed offset POST /api/printer/bed, and so on.            *)
C9_VerbAndEndpoint ==
    (Dispatched /\ op # "_make_request") =>
        /\ call[1].method = TableVerb
        /\ call[1].endpoint = TableEndpoint

----------------------------------------------------------------------------
ConnectFields == {"port", "baudrate", "printerProfile", "save", "autoconnect"}
ConnectSet == {f \in ConnectFields : args[f] # Unset}

(* C10: connect dispatches a JSON payload holding command = "connect" plus *)
(* exactly those optional fields (port, baudrate, printerProfile, save,    *)
(* autoconnect) the caller set, each with the caller's value, and no field *)
(* the caller left unset; also when a set value is False or 0.             *)
C10_ConnectPayload ==
    op = "connect" =>
        /\ Dispatched
        /\ DOMAIN JsonBody = {"command"} \cup ConnectSet
        /\ JsonBody["command"] = PyStr("connect")
        /\ \A f \in ConnectSet : JsonBody[f] = args[f]

----------------------------------------------------------------------------
\* The invocation was of one of the client's operations (a public method).
IsOperation == op \notin {"__init__", "_make_request"}

\* The invocation ended in an HTTP error for a response outside [200, 300).
HttpFailure(o) ==
    /\ o.kind = "raise"
    /\ o.exc = "HTTPError"
    /\ (o.status < 200 \/ o.status >= 300)

(* C11: every operation invocation ends in exactly one of three ways: it   *)
(* returns, it raises a validation error before any network call, or it    *)
(* raises an HTTP error for a non-2xx response; none ends with an error of *)
(* another kind.                                                           *)
C11_ThreeOutcomes ==
    IsOperation =>
        \/ outcome.kind = "return"
        \/ ValidationError(outcome) /\ NothingDispatched
        \/ HttpFailure(outcome)

----------------------------------------------------------------------------
(* C12: over any sequence of operation invocations, each invocation whose  *)
(* arguments pass validation issues exactly one HTTP request and each one  *)
(* that fails validation issues none; none issues more than one.           *)
C12_OneRequest ==
    IsOperation =>
        IF ValidationError(outcome)
        THEN sent = <<>>
        ELSE Len(sent) = 1

----------------------------------------------------------------------------
(* C13: after any sequence of operation invocations, successful or         *)
(* failing, the client's base_url and api_key equal the values given at    *)
(* construction, and the client holds no other attribute: no operation     *)
(* modifies the configuration or leaves state behind for the next call.    *)
C13_ConfigUnchanged ==
    /\ DOMAIN self = {"_api_key", "_base_url"}
    /\ self["_api_key"] = given.api_key
    /\ self["_base_url"] = given.base_url

C13_Witness ==
    /\ op = "connect"
    /\ Dispatched
    /\ outcome.kind = "raise"
    /\ self["_api_key"] = PyStr("k3y")
    /\ given.api_key = PyStr("k3y")
    /\ self["_base_url"] = given.base_url

====
